---- MODULE Spec2Model ----
(***************************************************************************)
(* Model of the benchmark telemetry scripts:                               *)
(*   scripts/analyze-external-rss.py  (analyze_rss, main)                  *)
(*   scripts/compare-results.py       (load_stats, load_external_rss,      *)
(*                                     print_comparison, main)             *)
(*   scripts/compare-queue.py         (load_stats, print_comparison, main) *)
(*   scripts/analyze_results.py       (analyze_file, main)                 *)
(*                                                                         *)
(* Text is a sequence of one-character strings.  Python floats are         *)
(* idealised as exact rationals [n, d] in lowest terms with d > 0.         *)
(* A call's outcome is a record: [kind |-> "None"], [kind |-> "ok", ...]   *)
(* or [kind |-> "raise", exc |-> <exception name>].                        *)
(***************************************************************************)
EXTENDS Integers, Sequences, FiniteSets, TLC

VARIABLES
    cmd,              \* the script (or function under test) that is running
    pc,               \* position in it
    exit,             \* process status: -1 while running, then 0 or 1
    exc,              \* exception that left main uncaught, or "none"
    file,             \* external artifact: Missing, or its lines
    idx,              \* lines of `file` consumed by the for loop
    rss_values,       \* analyze_rss / load_external_rss: values collected
    ext,              \* outcome of analyze_rss / load_external_rss
    nfiles,           \* analyze_results.main: number of globbed stat files
    stats,            \* analyze_file under test: the artifact it reads
    r,                \* analyze_results: what analyze_file returned
    results,          \* analyze_results.main: summaries collected so far
    rank,             \* analyze_results.main: ranking block outcome
    no_release,       \* compare-results.main: load_stats outcome (baseline)
    with_release,     \* compare-results.main: load_stats outcome (variant)
    ext_no_release,   \* compare-results.main: load_external_rss outcome
    ext_with_release, \* compare-results.main: load_external_rss outcome
    queue_1000,       \* compare-queue.main: load_stats outcome (baseline)
    queue_100,        \* compare-queue.main: load_stats outcome (variant)
    report            \* print_comparison: the figures it computed

vars == <<cmd, pc, exit, exc, file, idx, rss_values, ext, nfiles, stats, r,
          results, rank, no_release, with_release, ext_no_release,
          ext_with_release, queue_1000, queue_100, report>>

----------------------------------------------------------------------------
(* Bounds of the model *)

MaxLines == 3      \* lines in an external measurement artifact
MaxSamples == 2    \* records in a timeline artifact
MaxFiles == 2      \* stat files found by the glob

----------------------------------------------------------------------------
(* Outcomes *)

None == [kind |-> "None"]
Ok(v) == [kind |-> "ok", val |-> v]
Raise(e) == [kind |-> "raise", exc |-> e]
Unset == [kind |-> "unset"]
Missing == [kind |-> "missing"]

----------------------------------------------------------------------------
(* Exact arithmetic standing for Python's float arithmetic *)

Abs(x) == IF x < 0 THEN -x ELSE x

RECURSIVE Gcd(_, _)
Gcd(a, b) == IF b = 0 THEN a ELSE Gcd(b, a % b)

Norm(n, d) ==
    LET g == Gcd(Abs(n), d)
    IN  IF n = 0 THEN [n |-> 0, d |-> 1] ELSE [n |-> n \div g, d |-> d \div g]

R(i) == [n |-> i, d |-> 1]

\* a - b
RSub(a, b) ==
    LET g == Gcd(a.d, b.d)
    IN  Norm(a.n * (b.d \div g) - b.n * (a.d \div g), (a.d \div g) * b.d)

\* a * b
RMul(a, b) ==
    LET g1 == Gcd(Abs(a.n), b.d)
        g2 == Gcd(Abs(b.n), a.d)
    IN  IF a.n = 0 \/ b.n = 0 THEN R(0)
        ELSE Norm((a.n \div g1) * (b.n \div g2), (a.d \div g2) * (b.d \div g1))

\* a / b for b # 0 (Python raises ZeroDivisionError otherwise; callers test)
RDiv(a, b) ==
    LET inv == IF b.n < 0 THEN [n |-> -b.d, d |-> -b.n] ELSE [n |-> b.d, d |-> b.n]
    IN  RMul(a, inv)

RLt(a, b) == a.n * b.d < b.n * a.d
RLe(a, b) == a.n * b.d <= b.n * a.d
RGt(a, b) == RLt(b, a)

----------------------------------------------------------------------------
(* str.strip, str.startswith, str.split and int() *)

Whitespace == {" ", "\t", "\n", "\r"}

RECURSIVE lstrip(_)
lstrip(s) == IF s # <<>> /\ Head(s) \in Whitespace THEN lstrip(Tail(s)) ELSE s

RECURSIVE rstrip(_)
rstrip(s) ==
    IF s # <<>> /\ s[Len(s)] \in Whitespace
    THEN rstrip(SubSeq(s, 1, Len(s) - 1))
    ELSE s

strip(s) == rstrip(lstrip(s))

startswith(s, p) == Len(s) >= Len(p) /\ SubSeq(s, 1, Len(p)) = p

RECURSIVE split(_, _)
split(s, sep) ==
    LET hits == {i \in 1..Len(s) : s[i] = sep}
    IN  IF hits = {} THEN <<s>>
        ELSE LET p == CHOOSE i \in hits : \A j \in hits : i <= j
             IN  <<SubSeq(s, 1, p - 1)>> \o split(SubSeq(s, p + 1, Len(s)), sep)

DigitChars == {"0", "1", "2", "3", "4", "5", "6", "7", "8", "9"}

DigitVal(c) ==
    CASE c = "0" -> 0 [] c = "1" -> 1 [] c = "2" -> 2 [] c = "3" -> 3
      [] c = "4" -> 4 [] c = "5" -> 5 [] c = "6" -> 6 [] c = "7" -> 7
      [] c = "8" -> 8 [] c = "9" -> 9

\* digits with single underscores allowed between two digits
DigitsOk(s) ==
    /\ s # <<>>
    /\ \A i \in 1..Len(s) :
          \/ s[i] \in DigitChars
          \/ /\ s[i] = "_"
             /\ 1 < i /\ i < Len(s)
             /\ s[i - 1] \in DigitChars /\ s[i + 1] \in DigitChars

RECURSIVE DigitsValue(_, _)
DigitsValue(s, acc) ==
    IF s = <<>> THEN acc
    ELSE IF Head(s) = "_" THEN DigitsValue(Tail(s), acc)
    ELSE DigitsValue(Tail(s), 10 * acc + DigitVal(Head(s)))

\* int(text): Ok(value), or Raise("ValueError")
int(text) ==
    LET t == strip(text)
        signed == t # <<>> /\ Head(t) \in {"+", "-"}
        body == IF signed THEN Tail(t) ELSE t
        v == DigitsValue(body, 0)
    IN  IF DigitsOk(body)
        THEN Ok(IF signed /\ Head(t) = "-" THEN -v ELSE v)
        ELSE Raise("ValueError")

----------------------------------------------------------------------------
(* Reductions over a non-empty sequence of integers *)

RECURSIVE sum(_)
sum(s) == IF s = <<>> THEN 0 ELSE Head(s) + sum(Tail(s))

min(s) == CHOOSE x \in {s[i] : i \in 1..Len(s)} : \A j \in 1..Len(s) : x <= s[j]
max(s) == CHOOSE x \in {s[i] : i \in 1..Len(s)} : \A j \in 1..Len(s) : x >= s[j]

----------------------------------------------------------------------------
(* External measurement artifacts *)

timestamp == <<"t", "i", "m", "e", "s", "t", "a", "m", "p">>

ExtLines == {
    <<"t", "s", "1", ",", "x", ",", "1", "0", "2", "4">>,
    <<"t", "s", "2", ",", "x", ",", "2", "0", "4", "8", "\n">>,
    <<"t", "s", "3", ",", "x", ",", "1", "5", "3", "6">>,
    timestamp \o <<",", "1", ",", "5">>,
    timestamp \o <<"2", ",", "x", ",", "1", "0", "0">>,
    <<"g", "a", "r", "b", "a", "g", "e">>,
    <<"t", ",", "x", ",", "1", ".", "5">>,
    <<"t", ",", "x">>,
    <<" ", "\n">>,
    <<" ", "t", ",", "x", ",", " ", "+", "7", " ", ",", "y", " ">> }

RECURSIVE SeqsUpTo(_, _)
SeqsUpTo(S, n) ==
    IF n = 0 THEN {<<>>}
    ELSE LET shorter == SeqsUpTo(S, n - 1)
         IN  shorter \cup {Append(s, x) : s \in {t \in shorter : Len(t) = n - 1}, x \in S}

ExtFiles == {Missing} \cup {[kind |-> "text", lines |-> ls] : ls \in SeqsUpTo(ExtLines, MaxLines)}

\* variant of rss_line: the field count test is off by one
rss_line_more_than_3(raw) ==
    LET line == strip(raw)
        parts == split(line, ",")
    IN  IF line = <<>> \/ startswith(line, timestamp) THEN <<>>
        ELSE IF Len(parts) > 3
             THEN LET rss_kb == int(parts[3])
                  IN  IF rss_kb.kind = "ok" THEN <<rss_kb.val>> ELSE <<>>
             ELSE <<>>

\* one iteration of `for line in f:` (both scripts): the values it appends
rss_line(raw) ==
    LET line == strip(raw)
        parts == split(line, ",")
    IN  IF line = <<>> \/ startswith(line, timestamp) THEN <<>>
        ELSE IF Len(parts) >= 3
             THEN LET rss_kb == int(parts[3])
                  IN  IF rss_kb.kind = "ok" THEN <<rss_kb.val>> ELSE <<>>
             ELSE <<>>

\* variant of mean: integer division truncates the average
mean_floor(vs) == R(sum(vs) \div Len(vs))

\* sum(rss_values) / len(rss_values)
mean(vs) == RDiv(R(sum(vs)), R(Len(vs)))

\* analyze-external-rss.py: the dict analyze_rss returns
rss_summary(vs) ==
    LET min_rss == min(vs)
        max_rss == max(vs)
        avg_rss == mean(vs)
    IN  [sample_count |-> Len(vs),
         min_rss_kb |-> R(min_rss), max_rss_kb |-> R(max_rss), avg_rss_kb |-> avg_rss,
         min_rss_mb |-> RDiv(R(min_rss), R(1024)),
         max_rss_mb |-> RDiv(R(max_rss), R(1024)),
         avg_rss_mb |-> RDiv(avg_rss, R(1024))]

\* compare-results.py: the dict load_external_rss returns
ext_summary(vs) ==
    [min |-> RDiv(R(min(vs)), R(1024)),
     max |-> RDiv(R(max(vs)), R(1024)),
     avg |-> RDiv(mean(vs), R(1024))]

----------------------------------------------------------------------------
(* Values of the variables a command does not use *)

IdleExternal == file = Missing /\ idx = 0 /\ rss_values = <<>> /\ ext = Unset

IdleAnalyze ==
    nfiles = 0 /\ stats = Unset /\ r = Unset /\ results = <<>> /\ rank = Unset

IdleCompare ==
    /\ no_release = Unset /\ with_release = Unset
    /\ ext_no_release = Unset /\ ext_with_release = Unset
    /\ queue_1000 = Unset /\ queue_100 = Unset
    /\ report = Unset

ExternalVars == <<file, idx, rss_values, ext>>
AnalyzeVars == <<nfiles, stats, r, results, rank>>
CompareVars == <<no_release, with_release, ext_no_release, ext_with_release,
                 queue_1000, queue_100, report>>

----------------------------------------------------------------------------
(* analyze-external-rss.py, and load_external_rss of compare-results.py    *)
(* called on one artifact                                                  *)

NoArg == [kind |-> "noarg"]

InitExternal ==
    /\ cmd \in {"analyze-external-rss", "load_external_rss"}
    /\ pc = IF cmd = "analyze-external-rss" THEN "main" ELSE "open"
    /\ exit = -1 /\ exc = "none"
    /\ file \in ExtFiles \cup (IF cmd = "analyze-external-rss" THEN {NoArg} ELSE {})
    /\ idx = 0 /\ rss_values = <<>> /\ ext = Unset
    /\ IdleAnalyze /\ IdleCompare

\* analyze-external-rss.main up to the call of analyze_rss
main_external ==
    /\ cmd = "analyze-external-rss" /\ pc = "main"
    /\ IF file = NoArg
       THEN exit' = 1 /\ pc' = "done"
       ELSE exit' = exit /\ pc' = "open"
    /\ UNCHANGED <<cmd, exc, ExternalVars, AnalyzeVars, CompareVars>>

\* analyze_rss: rss_values = []; open(filename)
analyze_rss_open ==
    /\ cmd = "analyze-external-rss" /\ pc = "open"
    /\ rss_values' = <<>> /\ idx' = 0
    /\ IF file = Missing
       THEN ext' = Raise("FileNotFoundError") /\ pc' = "return"
       ELSE ext' = ext /\ pc' = "loop"
    /\ UNCHANGED <<cmd, exit, exc, file, AnalyzeVars, CompareVars>>

\* load_external_rss: os.path.exists test; rss_values = []; open(filename)
load_external_rss_open ==
    /\ cmd = "load_external_rss" /\ pc = "open"
    /\ rss_values' = <<>> /\ idx' = 0
    /\ IF file = Missing
       THEN ext' = None /\ pc' = "return"
       ELSE ext' = ext /\ pc' = "loop"
    /\ UNCHANGED <<cmd, exit, exc, file, AnalyzeVars, CompareVars>>

\* one iteration of `for line in f:`
for_line ==
    /\ cmd \in {"analyze-external-rss", "load_external_rss"} /\ pc = "loop"
    /\ idx < Len(file.lines)
    /\ rss_values' = rss_values \o rss_line(file.lines[idx + 1])
    /\ idx' = idx + 1
    /\ UNCHANGED <<cmd, pc, exit, exc, file, ext, AnalyzeVars, CompareVars>>

\* after the loop: `if not rss_values: return None`, else the summary
rss_return ==
    /\ cmd \in {"analyze-external-rss", "load_external_rss"} /\ pc = "loop"
    /\ idx = Len(file.lines)
    /\ ext' = IF rss_values = <<>> THEN None
              ELSE IF cmd = "analyze-external-rss" THEN Ok(rss_summary(rss_values))
              ELSE Ok(ext_summary(rss_values))
    /\ pc' = "return"
    /\ UNCHANGED <<cmd, exit, exc, file, idx, rss_values, AnalyzeVars, CompareVars>>

\* analyze-external-rss.main after analyze_rss: an exception leaves main
\* uncaught (status 1), None exits 1, a summary is printed (status 0)
main_external_exit ==
    /\ cmd = "analyze-external-rss" /\ pc = "return"
    /\ exc' = IF ext.kind = "raise" THEN ext.exc ELSE "none"
    /\ exit' = IF ext.kind = "ok" THEN 0 ELSE 1
    /\ pc' = "done"
    /\ UNCHANGED <<cmd, ExternalVars, AnalyzeVars, CompareVars>>

NextExternal ==
    \/ main_external
    \/ analyze_rss_open
    \/ load_external_rss_open
    \/ for_line
    \/ rss_return
    \/ main_external_exit

----------------------------------------------------------------------------
(* JSON artifacts: [kind |-> "invalid"] is text json.load rejects,         *)
(* [kind |-> "list", recs |-> <records>] a timeline, [kind |-> "object",   *)
(* obj |-> <function from keys to values>] a JSON object.  A record is a   *)
(* function from the field names it carries to integers.                   *)

Invalid == [kind |-> "invalid"]
List(recs) == [kind |-> "list", recs |-> recs]
Object(o) == [kind |-> "object", obj |-> o]

SampleFields == {"heap_alloc", "rss", "message_bytes", "message_count",
                 "batch_count", "num_gc", "pause_total_ns"}

Sample(h, rs, mb, mc, gc, p) ==
    [heap_alloc |-> h, rss |-> rs, message_bytes |-> mb, message_count |-> mc,
     batch_count |-> 1, num_gc |-> gc, pause_total_ns |-> p]

Without(rec, k) == [f \in (DOMAIN rec) \ {k} |-> rec[f]]

Samples == {
    Sample(2, 4, 1, 1, 1, 1000000),
    Sample(1, 2, 2, 2, 2, 500000),
    Sample(4, 5, 2, 2, 3, 2000000),
    Sample(0, 1, 4, 3, 0, 0),
    Sample(3, 3, 0, 0, 0, 0),
    Without(Sample(1, 1, 1, 1, 1, 1000000), "heap_alloc"),
    Without(Sample(1, 6, 1, 1, 1, 1000000), "message_bytes") }

StatArtifacts ==
    {Invalid, Object(<<>>), Object([summary |-> <<>>])}
        \cup {List(ss) : ss \in SeqsUpTo(Samples, MaxSamples)}

\* Python truth value of a loaded value
truthy(v) ==
    CASE v.kind = "list" -> v.recs # <<>>
      [] v.kind = "object" -> DOMAIN v.obj # {}
      [] v.kind = "ok" -> TRUE
      [] OTHER -> FALSE

\* max(s[k] for s in stats) over records that all carry k
max_of(recs, k) == max([i \in 1..Len(recs) |-> recs[i][k]])

\* variant of final_of: the first sample is taken instead of the last
final_of_first(recs) == recs[1]

\* final = stats[-1]: the last sample in file order, no sorting
final_of(recs) == recs[Len(recs)]

\* analyze_results.analyze_file on the path `filepath` holding `content`
analyze_file(filepath, content) ==
    IF content = Missing THEN Raise("FileNotFoundError")
    ELSE IF content.kind = "invalid" THEN Raise("JSONDecodeError")
    ELSE IF ~truthy(content) THEN None
    ELSE IF content.kind = "object" THEN Raise("TypeError")
    ELSE
      LET recs == content.recs
          final == final_of(recs)
      IN  IF \E i \in 1..Len(recs) : "heap_alloc" \notin DOMAIN recs[i]
          THEN Raise("KeyError")
          ELSE IF \E i \in 1..Len(recs) : "rss" \notin DOMAIN recs[i]
          THEN Raise("KeyError")
          ELSE IF ~(SampleFields \subseteq DOMAIN final)
          THEN Raise("KeyError")
          ELSE
            LET max_heap == max_of(recs, "heap_alloc")
                max_rss == max_of(recs, "rss")
                message_bytes == final["message_bytes"]
            IN  Ok([file |-> filepath,
                    message_count |-> final["message_count"],
                    message_bytes |-> message_bytes,
                    batch_count |-> final["batch_count"],
                    max_heap |-> max_heap,
                    max_rss |-> max_rss,
                    final_heap |-> final["heap_alloc"],
                    final_rss |-> final["rss"],
                    heap_ratio |-> IF message_bytes > 0
                                   THEN RDiv(R(max_heap), R(message_bytes)) ELSE R(0),
                    rss_ratio |-> IF message_bytes > 0
                                  THEN RDiv(R(max_rss), R(message_bytes)) ELSE R(0),
                    num_gc |-> final["num_gc"],
                    gc_pause_ms |-> RDiv(R(final["pause_total_ns"]), R(1000000))])

\* variant of best_heap: among equal minima the last one wins
best_heap_last(rs) ==
    LET i == CHOOSE a \in 1..Len(rs) :
                 /\ \A b \in 1..Len(rs) : RLe(rs[a].heap_ratio, rs[b].heap_ratio)
                 /\ \A b \in (a + 1)..Len(rs) : RGt(rs[b].heap_ratio, rs[a].heap_ratio)
    IN  rs[i]

\* min(results, key=heap_ratio): the first element no other is below
best_heap(rs) ==
    LET i == CHOOSE a \in 1..Len(rs) :
                 /\ \A b \in 1..Len(rs) : RLe(rs[a].heap_ratio, rs[b].heap_ratio)
                 /\ \A b \in 1..(a - 1) : RGt(rs[b].heap_ratio, rs[a].heap_ratio)
    IN  rs[i]

\* max(results, key=heap_ratio): the first element no other is above
worst_heap(rs) ==
    LET i == CHOOSE a \in 1..Len(rs) :
                 /\ \A b \in 1..Len(rs) : RLe(rs[b].heap_ratio, rs[a].heap_ratio)
                 /\ \A b \in 1..(a - 1) : RLt(rs[b].heap_ratio, rs[a].heap_ratio)
    IN  rs[i]

\* variant of ranking: a zero baseline is guarded and reported as factor 0
ranking_zero_factor(rs) ==
    IF Len(rs) > 1
    THEN LET best == best_heap(rs)
             worst == worst_heap(rs)
         IN  [kind |-> "ok", best |-> best.file, worst |-> worst.file,
              factor |-> IF best.heap_ratio.n = 0 THEN R(0)
                         ELSE RDiv(worst.heap_ratio, best.heap_ratio)]
    ELSE None

\* the ranking block of analyze_results.main (lines 107-113)
ranking(rs) ==
    IF Len(rs) > 1
    THEN LET best == best_heap(rs)
             worst == worst_heap(rs)
         IN  IF best.heap_ratio.n = 0
             THEN [kind |-> "raise", exc |-> "ZeroDivisionError",
                   best |-> best.file, worst |-> worst.file]
             ELSE [kind |-> "ok", best |-> best.file, worst |-> worst.file,
                   factor |-> RDiv(worst.heap_ratio, best.heap_ratio)]
    ELSE None

----------------------------------------------------------------------------
(* analyze_results.py.  nfiles = -1 stands for a missing results directory *)

InitAnalyze ==
    /\ cmd = "analyze_results" /\ pc = "main"
    /\ exit = -1 /\ exc = "none"
    /\ nfiles \in -1..MaxFiles
    /\ stats = Unset /\ r = Unset /\ results = <<>> /\ rank = Unset
    /\ IdleExternal /\ IdleCompare

\* analyze_file called on one artifact
InitAnalyzeFile ==
    /\ cmd = "analyze_file" /\ pc = "call"
    /\ exit = -1 /\ exc = "none"
    /\ nfiles = 0
    /\ stats \in StatArtifacts \cup {Missing}
    /\ r = Unset /\ results = <<>> /\ rank = Unset
    /\ IdleExternal /\ IdleCompare

analyze_file_call ==
    /\ cmd = "analyze_file" /\ pc = "call"
    /\ r' = analyze_file(1, stats)
    /\ pc' = "return"
    /\ UNCHANGED <<cmd, exit, exc, nfiles, stats, results, rank, ExternalVars, CompareVars>>

\* main up to the loop: the directory and the glob
main_analyze_glob ==
    /\ cmd = "analyze_results" /\ pc = "main"
    /\ IF nfiles <= 0
       THEN exit' = 1 /\ pc' = "done"
       ELSE exit' = exit /\ pc' = "files"
    /\ results' = <<>>
    /\ UNCHANGED <<cmd, exc, nfiles, stats, r, rank, ExternalVars, CompareVars>>

\* one iteration of `for f in stat_files:`; an exception is caught and
\* printed, and leaves r as it was
main_analyze_file ==
    /\ cmd = "analyze_results" /\ pc = "files"
    /\ idx < nfiles
    /\ \E content \in StatArtifacts :
          LET res == analyze_file(idx + 1, content)
          IN  /\ r' = IF res.kind = "raise" THEN r ELSE res
              /\ results' = IF res.kind = "ok" THEN Append(results, res.val) ELSE results
    /\ idx' = idx + 1
    /\ UNCHANGED <<cmd, pc, exit, exc, nfiles, stats, rank, file, rss_values, ext,
                   CompareVars>>

\* after the loop: `if not results: exit 1`, the table, the ranking block
main_analyze_report ==
    /\ cmd = "analyze_results" /\ pc = "files"
    /\ idx = nfiles
    /\ IF results = <<>>
       THEN exit' = 1 /\ exc' = exc /\ rank' = rank
       ELSE LET rk == ranking(results)
            IN  /\ rank' = rk
                /\ exc' = IF rk.kind = "raise" THEN rk.exc ELSE "none"
                /\ exit' = IF rk.kind = "raise" THEN 1 ELSE 0
    /\ pc' = "done"
    /\ UNCHANGED <<cmd, nfiles, stats, r, results, ExternalVars, CompareVars>>

NextAnalyze ==
    \/ analyze_file_call
    \/ main_analyze_glob
    \/ main_analyze_file
    \/ main_analyze_report

----------------------------------------------------------------------------
(* compare-results.py and compare-queue.py: pre-reduced summaries          *)

HeapFields == {"min_heap_alloc", "max_heap_alloc", "avg_heap_alloc", "final_heap_alloc"}
RssFields == {"min_rss", "max_rss", "avg_rss", "final_rss"}
DataFields == {"message_bytes", "message_count"}

Summary(max_heap, avg_heap, max_rss, bytes) ==
    [min_heap_alloc |-> 0, max_heap_alloc |-> max_heap,
     avg_heap_alloc |-> avg_heap, final_heap_alloc |-> avg_heap,
     min_rss |-> 0, max_rss |-> max_rss, avg_rss |-> max_rss, final_rss |-> max_rss,
     message_bytes |-> bytes, message_count |-> bytes]

Summaries ==
    {Summary(h, a, rs, b) : h \in {0, 2, 3}, a \in {0, 1}, rs \in {2, 4}, b \in {0, 1, 2}}

SummaryArtifacts ==
    {Missing, Invalid, Object(<<>>), Object([other |-> <<>>]),
     List(<<Sample(2, 4, 1, 1, 1, 1000000)>>),
     Object([summary |-> Without(Summary(2, 1, 2, 1), "max_rss")])}
        \cup {Object([summary |-> sm]) : sm \in Summaries}

Text(lines) == [kind |-> "text", lines |-> lines]

CompareExtFiles ==
    LET l1024 == <<"t", "s", "1", ",", "x", ",", "1", "0", "2", "4">>
        l2048 == <<"t", "s", "2", ",", "x", ",", "2", "0", "4", "8", "\n">>
        l1536 == <<"t", "s", "3", ",", "x", ",", "1", "5", "3", "6">>
        garbage == <<"g", "a", "r", "b", "a", "g", "e">>
    IN  {Missing, Text(<<>>), Text(<<garbage>>), Text(<<l1024>>),
         Text(<<garbage, l2048>>), Text(<<l1024, l2048, l1536>>)}

\* load_stats (both scripts): None, the parsed JSON value, or the exception
load_stats(content) ==
    IF content = Missing THEN None
    ELSE IF content.kind = "invalid" THEN Raise("JSONDecodeError")
    ELSE content

RECURSIVE rss_lines(_)
rss_lines(lines) ==
    IF lines = <<>> THEN <<>> ELSE rss_line(Head(lines)) \o rss_lines(Tail(lines))

\* load_external_rss as one call
load_external_rss(content) ==
    IF content = Missing THEN None
    ELSE LET vs == rss_lines(content.lines)
         IN  IF vs = <<>> THEN None ELSE Ok(ext_summary(vs))

\* x / 1024 / 1024
mb(x) == RDiv(RDiv(R(x), R(1024)), R(1024))

\* variant of saved_of: the operands are swapped
saved_of_reversed(a, b) == RSub(b, a)

\* the savings block: saved = a - b; pct = saved / a * 100 if a > 0 else 0
saved_of(a, b) == RSub(a, b)
pct_of(a, b) == IF a.n > 0 THEN RMul(RDiv(RSub(a, b), a), R(100)) ELSE R(0)

\* v['summary'][k] for every k of `keys`: the exception raised, or "none"
lookup(v, keys) ==
    IF v.kind = "list" THEN "TypeError"
    ELSE IF "summary" \notin DOMAIN v.obj THEN "KeyError"
    ELSE IF ~(keys \subseteq DOMAIN v.obj["summary"]) THEN "KeyError"
    ELSE "none"

\* the first exception among the lookups the tables make, in the order made
RECURSIVE first_failure(_)
first_failure(checks) ==
    IF checks = <<>> THEN "none"
    ELSE LET c == Head(checks)
             e == IF truthy(c[1]) THEN lookup(c[1], c[2]) ELSE "none"
         IN  IF e # "none" THEN e ELSE first_failure(Tail(checks))

\* the amplification block (both scripts): both ratios over the first
\* summary's message_bytes, only when that is positive
amplification(s1, s2) ==
    LET data_bytes == s1["message_bytes"]
    IN  IF data_bytes > 0
        THEN Ok([heap_ratio_1 |-> RDiv(R(s1["max_heap_alloc"]), R(data_bytes)),
                 heap_ratio_2 |-> RDiv(R(s2["max_heap_alloc"]), R(data_bytes)),
                 rss_ratio_1 |-> RDiv(R(s1["max_rss"]), R(data_bytes)),
                 rss_ratio_2 |-> RDiv(R(s2["max_rss"]), R(data_bytes))])
        ELSE None

\* the three savings both scripts compute from two summaries
savings(s1, s2) ==
    LET heap_1 == mb(s1["max_heap_alloc"])
        heap_2 == mb(s2["max_heap_alloc"])
        heap_avg_1 == mb(s1["avg_heap_alloc"])
        heap_avg_2 == mb(s2["avg_heap_alloc"])
        rss_1 == mb(s1["max_rss"])
        rss_2 == mb(s2["max_rss"])
    IN  [heap_saved |-> saved_of(heap_1, heap_2), heap_pct |-> pct_of(heap_1, heap_2),
         heap_avg_saved |-> saved_of(heap_avg_1, heap_avg_2),
         heap_avg_pct |-> pct_of(heap_avg_1, heap_avg_2),
         rss_saved |-> saved_of(rss_1, rss_2), rss_pct |-> pct_of(rss_1, rss_2)]

\* compare-results.print_comparison
print_comparison(no, with, ext_no, ext_with) ==
    LET e == first_failure(<<
                 <<no, DataFields>>, <<no, HeapFields>>, <<with, HeapFields>>,
                 <<no, RssFields>>, <<with, RssFields>> >>)
    IN  IF e # "none" THEN Raise(e)
        ELSE IF truthy(no) /\ truthy(with)
        THEN LET no_s == no.obj["summary"]
                 with_s == with.obj["summary"]
             IN  Ok([savings |-> Ok(savings(no_s, with_s)),
                     ext_savings |->
                         IF truthy(ext_no) /\ truthy(ext_with)
                         THEN Ok([ext_saved |-> saved_of(ext_no.val.max, ext_with.val.max),
                                  ext_pct |-> pct_of(ext_no.val.max, ext_with.val.max)])
                         ELSE None,
                     amplification |-> amplification(no_s, with_s)])
        ELSE Ok([savings |-> None, ext_savings |-> None, amplification |-> None])

\* compare-queue.print_comparison
print_comparison_queue(q1000, q100) ==
    LET e == first_failure(<<
                 <<q1000, DataFields>>, <<q1000, HeapFields>>, <<q100, HeapFields>>,
                 <<q1000, RssFields>>, <<q100, RssFields>> >>)
    IN  IF e # "none" THEN Raise(e)
        ELSE IF truthy(q1000) /\ truthy(q100)
        THEN LET s1000 == q1000.obj["summary"]
                 s100 == q100.obj["summary"]
             IN  Ok([savings |-> Ok(savings(s1000, s100)),
                     ext_savings |-> None,
                     amplification |-> amplification(s1000, s100)])
        ELSE Ok([savings |-> None, ext_savings |-> None, amplification |-> None])

InitCompare ==
    /\ cmd \in {"compare-results", "compare-queue"}
    /\ pc = "main"
    /\ exit = -1 /\ exc = "none"
    /\ no_release = Unset /\ with_release = Unset
    /\ ext_no_release = Unset /\ ext_with_release = Unset
    /\ queue_1000 = Unset /\ queue_100 = Unset
    /\ report = Unset
    /\ IdleExternal /\ IdleAnalyze

\* compare-results.main: the two load_stats calls; json.load's exception
\* leaves main uncaught
main_results_load_stats ==
    /\ cmd = "compare-results" /\ pc = "main"
    /\ \E c1 \in SummaryArtifacts, c2 \in SummaryArtifacts :
          LET v1 == load_stats(c1)
              v2 == load_stats(c2)
          IN  IF v1.kind = "raise"
              THEN /\ exc' = v1.exc /\ exit' = 1 /\ pc' = "done"
                   /\ UNCHANGED <<no_release, with_release>>
              ELSE IF v2.kind = "raise"
              THEN /\ exc' = v2.exc /\ exit' = 1 /\ pc' = "done"
                   /\ no_release' = v1 /\ with_release' = with_release
              ELSE /\ exc' = exc /\ exit' = exit /\ pc' = "ext"
                   /\ no_release' = v1 /\ with_release' = v2
    /\ UNCHANGED <<cmd, ext_no_release, ext_with_release, queue_1000, queue_100,
                   report, ExternalVars, AnalyzeVars>>

\* compare-results.main: the two load_external_rss calls
main_results_load_external ==
    /\ cmd = "compare-results" /\ pc = "ext"
    /\ \E f1 \in CompareExtFiles, f2 \in CompareExtFiles :
          /\ ext_no_release' = load_external_rss(f1)
          /\ ext_with_release' = load_external_rss(f2)
    /\ pc' = "check"
    /\ UNCHANGED <<cmd, exit, exc, no_release, with_release, queue_1000, queue_100,
                   report, ExternalVars, AnalyzeVars>>

\* compare-results.main: `if not no_release and not with_release: exit 1`,
\* then print_comparison, whose exception leaves main uncaught
main_results_print ==
    /\ cmd = "compare-results" /\ pc = "check"
    /\ IF ~truthy(no_release) /\ ~truthy(with_release)
       THEN exit' = 1 /\ exc' = exc /\ report' = report
       ELSE LET rep == print_comparison(no_release, with_release,
                                        ext_no_release, ext_with_release)
            IN  /\ report' = rep
                /\ exc' = IF rep.kind = "raise" THEN rep.exc ELSE "none"
                /\ exit' = IF rep.kind = "raise" THEN 1 ELSE 0
    /\ pc' = "done"
    /\ UNCHANGED <<cmd, no_release, with_release, ext_no_release, ext_with_release,
                   queue_1000, queue_100, ExternalVars, AnalyzeVars>>

\* compare-queue.main: the two load_stats calls
main_queue_load_stats ==
    /\ cmd = "compare-queue" /\ pc = "main"
    /\ \E c1 \in SummaryArtifacts, c2 \in SummaryArtifacts :
          LET v1 == load_stats(c1)
              v2 == load_stats(c2)
          IN  IF v1.kind = "raise"
              THEN /\ exc' = v1.exc /\ exit' = 1 /\ pc' = "done"
                   /\ UNCHANGED <<queue_1000, queue_100>>
              ELSE IF v2.kind = "raise"
              THEN /\ exc' = v2.exc /\ exit' = 1 /\ pc' = "done"
                   /\ queue_1000' = v1 /\ queue_100' = queue_100
              ELSE /\ exc' = exc /\ exit' = exit /\ pc' = "check"
                   /\ queue_1000' = v1 /\ queue_100' = v2
    /\ UNCHANGED <<cmd, no_release, with_release, ext_no_release, ext_with_release,
                   report, ExternalVars, AnalyzeVars>>

\* compare-queue.main: the emptiness test, then print_comparison
main_queue_print ==
    /\ cmd = "compare-queue" /\ pc = "check"
    /\ IF ~truthy(queue_1000) /\ ~truthy(queue_100)
       THEN exit' = 1 /\ exc' = exc /\ report' = report
       ELSE LET rep == print_comparison_queue(queue_1000, queue_100)
            IN  /\ report' = rep
                /\ exc' = IF rep.kind = "raise" THEN rep.exc ELSE "none"
                /\ exit' = IF rep.kind = "raise" THEN 1 ELSE 0
    /\ pc' = "done"
    /\ UNCHANGED <<cmd, no_release, with_release, ext_no_release, ext_with_release,
                   queue_1000, queue_100, ExternalVars, AnalyzeVars>>

NextCompare ==
    \/ main_results_load_stats
    \/ main_results_load_external
    \/ main_results_print
    \/ main_queue_load_stats
    \/ main_queue_print

----------------------------------------------------------------------------
Init == InitExternal \/ InitAnalyze \/ InitAnalyzeFile \/ InitCompare

Next == NextExternal \/ NextAnalyze \/ NextCompare

Spec == Init /\ [][Next]_vars

----------------------------------------------------------------------------
(* Properties of the external adapter *)

External == cmd \in {"analyze-external-rss", "load_external_rss"}
ExternalRead == External /\ file.kind = "text" /\ pc \in {"return", "done"}

fields(raw) == split(strip(raw), ",")
IsBlank(raw) == strip(raw) = <<>>
\* fewer than 3 comma-separated fields, or a third field int() rejects
Malformed(raw) == Len(fields(raw)) < 3 \/ int(fields(raw)[3]).kind = "raise"
\* skipped by the adapter as blank or as the header
Skipped(raw) == IsBlank(raw) \/ startswith(strip(raw), timestamp)
ValidLine(raw) == ~Skipped(raw) /\ ~Malformed(raw)
ThirdFields(ls) == [i \in 1..Len(ls) |-> int(fields(ls[i])[3]).val]
ValidValues(ls) == ThirdFields(SelectSeq(ls, ValidLine))

\* C3: a malformed line (fewer than 3 fields, or a third field that is no
\* integer) is dropped without raising and without affecting any other
\* line: after any number of lines the values collected are exactly the
\* integer third fields of the valid lines read so far, in file order, the
\* call never ends in an exception, it returns None exactly when no line is
\* valid, and analyze_rss's sample_count is the number of valid lines.
\* (Lines the adapter skips as blank or header are neither valid nor
\* malformed here.)
C3_MalformedLinesDropped ==
    (External /\ file.kind = "text") =>
        /\ pc = "loop" => rss_values = ValidValues(SubSeq(file.lines, 1, idx))
        /\ pc \in {"return", "done"} =>
              /\ rss_values = ValidValues(file.lines)
              /\ ext.kind # "raise"
              /\ (ext = None) <=> (ValidValues(file.lines) = <<>>)
              /\ (cmd = "analyze-external-rss" /\ ext.kind = "ok") =>
                    ext.val.sample_count = Len(SelectSeq(file.lines, ValidLine))

\* C3 witness: a malformed line followed by a valid one, and a summary
C3_Witness ==
    /\ ExternalRead /\ ext.kind = "ok"
    /\ \E i, j \in 1..Len(file.lines) :
          /\ i < j
          /\ ~IsBlank(file.lines[i]) /\ Malformed(file.lines[i])
          /\ ValidLine(file.lines[j])

\* a header by the specification: the first field is literally `timestamp`
IsHeader(raw) == fields(raw)[1] = timestamp
Contributes(raw) == ~IsBlank(raw) /\ ~IsHeader(raw) /\ ~Malformed(raw)

\* C4: a non-blank line is skipped as the header exactly when its first
\* comma-separated field is literally `timestamp`; every other line with at
\* least 3 fields and an integer third field contributes one sample.
C4_HeaderIsLiteralFirstField ==
    ExternalRead => rss_values = ThirdFields(SelectSeq(file.lines, Contributes))

LeastOf(vs, m) == (\E i \in 1..Len(vs) : vs[i] = m) /\ (\A i \in 1..Len(vs) : m <= vs[i])
GreatestOf(vs, m) == (\E i \in 1..Len(vs) : vs[i] = m) /\ (\A i \in 1..Len(vs) : m >= vs[i])
\* q is exactly a / b
IsQuotient(q, a, b) == q.d > 0 /\ q.n * b = a * q.d
\* q is exactly p / 1024
IsOver1024(q, p) == q.d > 0 /\ q.n * p.d * 1024 = p.n * q.d

\* C10: for a non-empty sequence of valid samples the external summary has
\* min <= avg <= max, avg is the arithmetic mean (sum / count, not
\* truncated), min and max are the least and greatest value, and each MB
\* field is the KB value divided by 1024.
C10_ExternalSummary ==
    (External /\ pc \in {"return", "done"} /\ ext.kind = "ok") =>
        LET vs == rss_values
            e == ext.val
        IN  /\ vs # <<>>
            /\ IF cmd = "analyze-external-rss"
               THEN /\ e.min_rss_kb.d = 1 /\ LeastOf(vs, e.min_rss_kb.n)
                    /\ e.max_rss_kb.d = 1 /\ GreatestOf(vs, e.max_rss_kb.n)
                    /\ IsQuotient(e.avg_rss_kb, sum(vs), Len(vs))
                    /\ RLe(e.min_rss_kb, e.avg_rss_kb) /\ RLe(e.avg_rss_kb, e.max_rss_kb)
                    /\ IsOver1024(e.min_rss_mb, e.min_rss_kb)
                    /\ IsOver1024(e.max_rss_mb, e.max_rss_kb)
                    /\ IsOver1024(e.avg_rss_mb, e.avg_rss_kb)
                    /\ RLe(e.min_rss_mb, e.avg_rss_mb) /\ RLe(e.avg_rss_mb, e.max_rss_mb)
               ELSE /\ \E m \in {vs[i] : i \in 1..Len(vs)} :
                          LeastOf(vs, m) /\ IsOver1024(e.min, R(m))
                    /\ \E m \in {vs[i] : i \in 1..Len(vs)} :
                          GreatestOf(vs, m) /\ IsOver1024(e.max, R(m))
                    /\ IsQuotient(e.avg, sum(vs), Len(vs) * 1024)
                    /\ RLe(e.min, e.avg) /\ RLe(e.avg, e.max)

\* C10 witness: rows 1024, 2048, 1536 give min 1.0, max 2.0, avg 4608/3/1024
C10_Witness ==
    /\ External /\ pc \in {"return", "done"} /\ ext.kind = "ok"
    /\ rss_values = <<1024, 2048, 1536>>
    /\ IF cmd = "analyze-external-rss"
       THEN /\ ext.val.min_rss_mb = R(1) /\ ext.val.max_rss_mb = R(2)
            /\ ext.val.avg_rss_mb = [n |-> 3, d |-> 2]
       ELSE /\ ext.val.min = R(1) /\ ext.val.max = R(2)
            /\ ext.val.avg = [n |-> 3, d |-> 2]

----------------------------------------------------------------------------
(* Properties of analyze_results.py *)

AnalyzeDone == cmd = "analyze_results" /\ pc = "done"

\* the least heap ratio among the summaries is exactly 0
BestRatioIsZero(rs) ==
    /\ \E i \in 1..Len(rs) : rs[i].heap_ratio.n = 0
    /\ \A i \in 1..Len(rs) : rs[i].heap_ratio.n >= 0

\* C1: when a ranking is produced over two or more summaries and the best
\* (minimum) heap ratio is exactly 0, no improvement factor is reported as a
\* number: the run ends in an error (the division raises).
C1_ZeroBaselineSignalled ==
    (AnalyzeDone /\ Len(results) >= 2 /\ BestRatioIsZero(results)) =>
        /\ rank.kind = "raise"
        /\ exc = "ZeroDivisionError"
        /\ exit # 0

\* C1 witness: the ranking of {0, positive} ended in the error
C1_Witness ==
    /\ AnalyzeDone /\ Len(results) >= 2
    /\ \E i, j \in 1..Len(results) :
          results[i].heap_ratio.n = 0 /\ results[j].heap_ratio.n > 0
    /\ rank.kind = "raise"

WellFormed(rec) == SampleFields \subseteq DOMAIN rec

\* C2: a record missing a required field is skipped on its own: the
\* artifact is summarised as if it held only its well-formed records, so it
\* yields a summary whenever at least one record is well-formed.
C2_MalformedRecordSkipped ==
    (cmd = "analyze_file" /\ pc = "return" /\ stats.kind = "list") =>
        LET wellformed == SelectSeq(stats.recs, WellFormed)
        IN  wellformed # <<>> =>
               r.kind = "ok" /\ r = analyze_file(1, List(wellformed))

\* the artifact is absent, or holds no valid record
NoValidLine == file = Missing \/ (file.kind = "text" /\ ValidValues(file.lines) = <<>>)
NoValidRecord ==
    \/ stats = Missing
    \/ stats.kind = "list" /\ \A i \in 1..Len(stats.recs) : ~WellFormed(stats.recs[i])

\* C5: every adapter entry point returns None, and does not raise, when the
\* artifact does not exist or holds zero valid records.
C5_AbsentGivesNone ==
    /\ (External /\ pc \in {"return", "done"} /\ NoValidLine) => ext = None
    /\ (cmd = "analyze_file" /\ pc = "return" /\ NoValidRecord) => r = None

\* peak / message_bytes when message_bytes > 0, else 0
IsAmplification(q, peak, bytes) ==
    IF bytes > 0 THEN IsQuotient(q, peak, bytes) ELSE q = R(0)

CompareDone == cmd \in {"compare-results", "compare-queue"} /\ pc = "done"
Baseline == IF cmd = "compare-results" THEN no_release ELSE queue_1000
Variant == IF cmd = "compare-results" THEN with_release ELSE queue_100
Compared == CompareDone /\ report.kind = "ok" /\ report.val.savings.kind = "ok"

\* C6: every amplification ratio of a run is that run's peak divided by that
\* run's message_bytes when message_bytes > 0, and exactly 0 when it is 0.
C6_RatioOverOwnBytes ==
    /\ (cmd = "analyze_file" /\ pc = "return" /\ r.kind = "ok") =>
          /\ IsAmplification(r.val.heap_ratio, r.val.max_heap, r.val.message_bytes)
          /\ IsAmplification(r.val.rss_ratio, r.val.max_rss, r.val.message_bytes)
    /\ Compared =>
          LET b == Baseline.obj["summary"]
              v == Variant.obj["summary"]
              a == report.val.amplification
          IN  a.kind = "ok" =>
              /\ IsAmplification(a.val.heap_ratio_1, b["max_heap_alloc"], b["message_bytes"])
              /\ IsAmplification(a.val.rss_ratio_1, b["max_rss"], b["message_bytes"])
              /\ IsAmplification(a.val.heap_ratio_2, v["max_heap_alloc"], v["message_bytes"])
              /\ IsAmplification(a.val.rss_ratio_2, v["max_rss"], v["message_bytes"])

\* saved is (base - var) bytes in MB, pct is (base - var) / base * 100 or 0
IsSavings(saved, pct, base, var) ==
    /\ saved.d > 0 /\ saved.n * 1048576 = (base - var) * saved.d
    /\ IF base > 0
       THEN pct.d > 0 /\ pct.n * base = (base - var) * 100 * pct.d
       ELSE pct = R(0)
    /\ base = var => (saved = R(0) /\ pct = R(0))

\* the same for two rationals (the external peaks, in MB)
IsSavingsR(saved, pct, base, var) ==
    LET diff == base.n * var.d - var.n * base.d    \* (base - var) * base.d * var.d
    IN  /\ saved.d > 0 /\ saved.n * base.d * var.d = diff * saved.d
        /\ IF base.n > 0
           THEN pct.d > 0 /\ pct.n * base.n * var.d = diff * 100 * pct.d
           ELSE pct = R(0)
        /\ base = var => (saved = R(0) /\ pct = R(0))

\* C7: for every compared metric of both two-way reports (peak heap,
\* average heap, peak RSS, external peak RSS) absolute = baseline - variant
\* and percentage = absolute / baseline * 100 when baseline > 0, else 0;
\* equal values give (0, 0).
C7_SavingsFormula ==
    Compared =>
        LET b == Baseline.obj["summary"]
            v == Variant.obj["summary"]
            sv == report.val.savings.val
            es == report.val.ext_savings
        IN  /\ IsSavings(sv.heap_saved, sv.heap_pct, b["max_heap_alloc"], v["max_heap_alloc"])
            /\ IsSavings(sv.heap_avg_saved, sv.heap_avg_pct,
                         b["avg_heap_alloc"], v["avg_heap_alloc"])
            /\ IsSavings(sv.rss_saved, sv.rss_pct, b["max_rss"], v["max_rss"])
            /\ es.kind = "ok" =>
                  IsSavingsR(es.val.ext_saved, es.val.ext_pct,
                             ext_no_release.val.max, ext_with_release.val.max)
            /\ (es.kind = "ok") <=>
                  (cmd = "compare-results" /\ ext_no_release.kind = "ok"
                                           /\ ext_with_release.kind = "ok")

\* C7 witness: a regression on peak heap, a saving on peak RSS, and an
\* external pair were all reported
C7_Witness ==
    /\ Compared
    /\ report.val.savings.val.heap_saved.n < 0
    /\ report.val.savings.val.rss_pct = R(50)
    /\ report.val.ext_savings.kind = "ok"
    /\ report.val.ext_savings.val.ext_saved.n > 0

\* i is the first index of rs whose heap ratio is least / greatest
FirstLeast(rs, i) ==
    /\ \A j \in 1..Len(rs) : ~RLt(rs[j].heap_ratio, rs[i].heap_ratio)
    /\ \A j \in 1..Len(rs) : rs[j].heap_ratio = rs[i].heap_ratio => i <= j
FirstGreatest(rs, i) ==
    /\ \A j \in 1..Len(rs) : ~RLt(rs[i].heap_ratio, rs[j].heap_ratio)
    /\ \A j \in 1..Len(rs) : rs[j].heap_ratio = rs[i].heap_ratio => i <= j

\* C8: over at least two summaries the ranking names as best the first
\* summary whose heap ratio is minimal and as worst the first whose heap
\* ratio is maximal, and a reported factor is worst / best; over a single
\* summary no ranking is produced.
C8_RankingFirstSeen ==
    AnalyzeDone /\ results # <<>> =>
        IF Len(results) >= 2
        THEN /\ rank.kind \in {"ok", "raise"}
             /\ \E i, j \in 1..Len(results) :
                   /\ FirstLeast(results, i) /\ rank.best = results[i].file
                   /\ FirstGreatest(results, j) /\ rank.worst = results[j].file
                   /\ rank.kind = "ok" =>
                         /\ rank.factor.d > 0
                         /\ rank.factor.n * results[i].heap_ratio.n * results[j].heap_ratio.d
                              = results[j].heap_ratio.n * results[i].heap_ratio.d * rank.factor.d
        ELSE rank = None

\* C8 witness: {A: 2.0, B: 0.5} gives best = B, worst = A, factor 4.0
C8_Witness ==
    /\ AnalyzeDone /\ Len(results) = 2
    /\ results[1].heap_ratio = R(2) /\ results[2].heap_ratio = [n |-> 1, d |-> 2]
    /\ rank = [kind |-> "ok", best |-> 2, worst |-> 1, factor |-> R(4)]

\* a loaded stats value the comparison can use: an object with a full summary
UsableStats(v) ==
    /\ v.kind = "object" /\ "summary" \in DOMAIN v.obj
    /\ (HeapFields \cup RssFields \cup DataFields) \subseteq DOMAIN v.obj["summary"]

\* some requested artifact produced a usable summary
SomeUsable ==
    CASE cmd = "analyze_results" -> results # <<>>
      [] cmd = "compare-results" -> UsableStats(no_release) \/ UsableStats(with_release)
      [] cmd = "compare-queue" -> UsableStats(queue_1000) \/ UsableStats(queue_100)
      [] cmd = "analyze-external-rss" -> ext.kind = "ok"
      [] OTHER -> FALSE

\* C9: a command ends with a non-zero status only when no requested
\* artifact produced a usable summary, and with status 0, no exception
\* leaving main, whenever at least one did.
C9_ExitStatus ==
    (pc = "done" /\ cmd \notin {"analyze_file", "load_external_rss"}) =>
        /\ exit # 0 => ~SomeUsable
        /\ SomeUsable => (exit = 0 /\ exc = "none")

----------------------------------------------------------------------------
(* Properties of analyze_file's reduction *)

Column(recs, k) == [i \in 1..Len(recs) |-> recs[i][k]]

\* C11: for a non-empty sequence of well-formed samples, in whatever order,
\* the summary takes final_heap, final_rss, message_bytes, message_count,
\* batch_count, num_gc and gc_pause_ms (= pause_total_ns / 1,000,000) from
\* the last sample in file order, max_heap and max_rss are the maxima over
\* the whole sequence, and so final <= max for heap and for RSS.
C11_FinalIsLastSample ==
    (/\ cmd = "analyze_file" /\ pc = "return"
     /\ stats.kind = "list" /\ stats.recs # <<>>
     /\ \A i \in 1..Len(stats.recs) : WellFormed(stats.recs[i])) =>
        LET recs == stats.recs
            last == recs[Len(recs)]
        IN  /\ r.kind = "ok"
            /\ r.val.final_heap = last["heap_alloc"]
            /\ r.val.final_rss = last["rss"]
            /\ r.val.message_bytes = last["message_bytes"]
            /\ r.val.message_count = last["message_count"]
            /\ r.val.batch_count = last["batch_count"]
            /\ r.val.num_gc = last["num_gc"]
            /\ IsQuotient(r.val.gc_pause_ms, last["pause_total_ns"], 1000000)
            /\ GreatestOf(Column(recs, "heap_alloc"), r.val.max_heap)
            /\ GreatestOf(Column(recs, "rss"), r.val.max_rss)
            /\ r.val.final_heap <= r.val.max_heap
            /\ r.val.final_rss <= r.val.max_rss

\* C11 witness: samples out of order (the last one has processed fewer
\* bytes than an earlier one and is below the peak), summarised unsorted
C11_Witness ==
    /\ cmd = "analyze_file" /\ pc = "return" /\ r.kind = "ok"
    /\ stats.kind = "list" /\ Len(stats.recs) >= 2
    /\ \A i \in 1..Len(stats.recs) : WellFormed(stats.recs[i])
    /\ stats.recs[1]["message_bytes"] > stats.recs[Len(stats.recs)]["message_bytes"]
    /\ r.val.message_bytes = stats.recs[Len(stats.recs)]["message_bytes"]
    /\ r.val.final_heap < r.val.max_heap
    /\ r.val.gc_pause_ms # R(0)

====
